---- MODULE Spec2Model ----
(***************************************************************************)
(* Model of envoi_emails.py: main() loads the templates and the contacts,  *)
(* then send_bulk_emails() walks the contact list, sending one message per *)
(* contact through an EmailSender whose SMTP session is opened lazily, and *)
(* main() finally disconnects the sender.                                  *)
(*                                                                         *)
(* Python's None / optional values are modelled as sequences of length at  *)
(* most one: None is <<>> and a present value v is <<v>>.                  *)
(***************************************************************************)
EXTENDS Integers, Sequences, FiniteSets, TLC

\* ------------------------------------------------------------------ bounds
\* Longest contact list the source file may hold.
MaxContacts == 4

\* --------------------------------------------------------- program constants
\* The test-mode limit of send_bulk_emails (lines 150-151).
TestLimit == 3
\* Default of --delay (line 224).
DefaultDelay == 5

\* ------------------------------------------------------------ option values
None == <<>>
Some(v) == <<v>>
\* Python truthiness of an optional string: None and "" are falsy.
Falsy(x) == x = None \/ x = Some("")

\* ------------------------------------------------------------------- inputs
\* A contact record (a dict): the 'email' key may be absent, empty or set.
ContactKinds ==
    { [name |-> "A"],
      [name |-> "A", email |-> ""],
      [name |-> "A", email |-> "a@x.org"] }

\* dict.get(key): None when the key is absent.
Get(contact, key) == IF key \in DOMAIN contact THEN Some(contact[key]) ELSE None

ContactLists == UNION { [1..n -> ContactKinds] : n \in 0..MaxContacts }

\* Values of --max-emails (type=int, optional): unset, negative, zero, positive.
MaxEmailsValues == {None} \cup { Some(m) : m \in -1..(MaxContacts + 1) }

\* Values of --delay.
DelayValues == {0, DefaultDelay}

HtmlContent == "<p>Bonjour $name</p>"
TextContent == "Bonjour $name"

VARIABLES
    args,           \* parsed command line: max_emails, test, delay, text_template
    source_file,    \* the contacts the source file / query holds
    pc,             \* position of main()
    html_template,  \* main: loaded HTML template (optional string)
    text_template,  \* main: loaded text template (optional string)
    contacts,       \* main: loaded contact list
    max_emails,     \* send_bulk_emails: effective cap (optional int)
    total_emails,   \* send_bulk_emails: total_emails
    i,              \* send_bulk_emails: index of enumerate()
    sent_count,     \* send_bulk_emails: sent_count
    failed_count,   \* send_bulk_emails: failed_count
    smtp_session,   \* EmailSender.smtp_session: "None", "half" or "open"
    socket,         \* connection of the SMTP object: "none", "open", "closed"
    processed,      \* history: indices of the contacts iterated, in order
    calls,          \* history: indices of the contacts passed to send_email
    returned_true,  \* history: number of send_email calls that returned True
    sleeps,         \* history: indices after which time.sleep(delay) ran
    connects,       \* history: outcome of every connect() call, in order
    result,         \* value returned by send_bulk_emails (optional pair)
    raised,         \* an exception escaped send_bulk_emails
    disconnected    \* history: email_sender.disconnect() has run

vars == << args, source_file, pc, html_template, text_template, contacts,
           max_emails, total_emails, i, sent_count, failed_count,
           smtp_session, socket, processed, calls, returned_true, sleeps, connects,
           result, raised, disconnected >>

\* ---------------------------------------------------------- EmailSender
\* Mutant of NeedConnect: connect() on every send_email call.
NeedConnect_Mut(session) == TRUE

\* send_email line 53: `if not self.smtp_session`.
NeedConnect(session) == session = "None"

\* connect(): the SMTP constructor may raise before the assignment
\* ("refused": smtp_session keeps its value), ehlo/starttls/login may raise
\* after it ("handshake": smtp_session holds the SMTP object), or all
\* succeed ("ok").  Each outcome: the new smtp_session, the socket and the
\* value returned.
Connect(session, sock) ==
    { [kind |-> "refused",   session |-> session, socket |-> sock,   ok |-> FALSE],
      [kind |-> "handshake", session |-> "half",  socket |-> "open", ok |-> FALSE],
      [kind |-> "ok",        session |-> "open",  socket |-> "open", ok |-> TRUE] }

\* send_email(): connects when no session is held and returns False when
\* that fails; otherwise builds the message and calls send_message, which
\* either succeeds (True) or raises (caught, False).
SendEmail(session, sock) ==
    IF NeedConnect(session)
    THEN UNION { IF c.ok
                 THEN { [session |-> c.session, socket |-> c.socket,
                         connects |-> <<c.kind>>, success |-> s] : s \in BOOLEAN }
                 ELSE { [session |-> c.session, socket |-> c.socket,
                         connects |-> <<c.kind>>, success |-> FALSE] }
               : c \in Connect(session, sock) }
    ELSE { [session |-> session, socket |-> sock,
            connects |-> <<>>, success |-> s] : s \in BOOLEAN }

\* Mutant of HoldsSession: only a fully established session is quit.
HoldsSession_Mut(session) == session = "open"

\* disconnect() line 47: `if self.smtp_session`.
HoldsSession(session) == session # "None"

\* ----------------------------------------------------- send_bulk_emails
\* Mutant of EffectiveMax: a cap given on the command line is never lowered
\* to the test limit.
EffectiveMax_Mut(test_mode, m) ==
    IF test_mode /\ m = None THEN Some(TestLimit) ELSE m

\* Lines 150-151: the test-mode limit.
EffectiveMax(test_mode, m) ==
    IF test_mode /\ (m = None \/ m[1] > TestLimit) THEN Some(TestLimit) ELSE m

Min(a, b) == IF a <= b THEN a ELSE b

\* Mutant of TotalEmails: the cap replaces the length instead of bounding it.
TotalEmails_Mut(n, m) == IF m # None THEN m[1] ELSE n

\* Lines 154-156.
TotalEmails(n, m) == IF m # None THEN Min(n, m[1]) ELSE n

\* Mutant of LoopBreak: off by one, `i > max_emails`.
LoopBreak_Mut(idx, m) == m # None /\ idx > m[1]

\* Line 161: `if max_emails is not None and i >= max_emails: break`.
LoopBreak(idx, m) == m # None /\ idx >= m[1]

\* Mutant of NoRecipient: `if recipient is None`, which lets "" through.
NoRecipient_Mut(contact) == Get(contact, "email") = None

\* Lines 176-177: `recipient = contact.get('email')`, `if not recipient`.
NoRecipient(contact) == Falsy(Get(contact, "email"))

\* Mutant of TallyAfter: a failed send is not counted.
TallyAfter_Mut(success, sent, failed) ==
    IF success THEN <<sent + 1, failed>> ELSE <<sent, failed>>

\* Lines 190-193: the tally after a send_email call.
TallyAfter(success, sent, failed) ==
    IF success THEN <<sent + 1, failed>> ELSE <<sent, failed + 1>>

\* Mutant of ShouldSleep: the test `delay > 0` is dropped.
ShouldSleep_NoDelayTest(idx, total, delay) == idx < total - 1

\* Mutant of ShouldSleep: off by one, `i < total_emails`.
ShouldSleep_Mut(idx, total, delay) == idx < total /\ delay > 0

\* Line 196: `if i < total_emails - 1 and delay > 0`.
ShouldSleep(idx, total, delay) == idx < total - 1 /\ delay > 0

\* ------------------------------------------------------------------ Init
Init ==
    /\ args \in [ max_emails : MaxEmailsValues, test : BOOLEAN,
                  delay : DelayValues, text_template : BOOLEAN ]
    /\ source_file \in ContactLists
    /\ pc = "load_html"
    /\ html_template = None
    /\ text_template = None
    /\ contacts = <<>>
    /\ max_emails = None
    /\ total_emails = 0
    /\ i = 0
    /\ sent_count = 0
    /\ failed_count = 0
    /\ smtp_session = "None"
    /\ socket = "none"
    /\ processed = <<>>
    /\ calls = <<>>
    /\ returned_true = 0
    /\ sleeps = <<>>
    /\ connects = <<>>
    /\ result = None
    /\ raised = FALSE
    /\ disconnected = FALSE

loopVars == << max_emails, total_emails, i, sent_count, failed_count,
               smtp_session, socket, processed, calls, returned_true, sleeps, connects,
               result, raised, disconnected >>

\* ------------------------------------------------------------------ main
\* Lines 236-239: load_template returns the content or None; a falsy
\* template ends main.
LoadHtmlTemplate ==
    /\ pc = "load_html"
    /\ \E r \in {None, Some(""), Some(HtmlContent)} :
          /\ html_template' = r
          /\ pc' = IF Falsy(r) THEN "done" ELSE "load_text"
    /\ UNCHANGED << args, source_file, text_template, contacts >>
    /\ UNCHANGED loopVars

\* Lines 242-244: the text template is loaded only when the option is given;
\* its result is not tested.
LoadTextTemplate ==
    /\ pc = "load_text"
    /\ IF args.text_template
       THEN \E r \in {None, Some(TextContent)} : text_template' = r
       ELSE text_template' = None
    /\ pc' = "load_contacts"
    /\ UNCHANGED << args, source_file, html_template, contacts >>
    /\ UNCHANGED loopVars

\* Mutant of LoadContacts: the test `if not contacts` of line 253 is dropped.
LoadContacts_Mut ==
    /\ pc = "load_contacts"
    /\ \E ok \in BOOLEAN :
          /\ contacts' = IF ok THEN source_file ELSE <<>>
          /\ pc' = "bulk"
    /\ UNCHANGED << args, source_file, html_template, text_template >>
    /\ UNCHANGED loopVars

\* Lines 247-263: the loaders return [] on any error; an empty list ends
\* main; otherwise the EmailSender is built (smtp_session = None).
LoadContacts ==
    /\ pc = "load_contacts"
    /\ \E ok \in BOOLEAN :
          /\ contacts' = IF ok THEN source_file ELSE <<>>
          /\ pc' = IF contacts' = <<>> THEN "done" ELSE "bulk"
    /\ UNCHANGED << args, source_file, html_template, text_template >>
    /\ UNCHANGED loopVars

\* ----------------------------------------------------- send_bulk_emails
\* Lines 146-158.
BulkStart ==
    /\ pc = "bulk"
    /\ sent_count' = 0
    /\ failed_count' = 0
    /\ max_emails' = EffectiveMax(args.test, args.max_emails)
    /\ total_emails' = TotalEmails(Len(contacts), max_emails')
    /\ i' = 0
    /\ pc' = "loop"
    /\ UNCHANGED << args, source_file, html_template, text_template, contacts,
                    smtp_session, socket, processed, calls, returned_true, sleeps, connects,
                    result, raised, disconnected >>

\* Lines 160-162: the list is exhausted, or the break is taken.
LoopExit ==
    /\ pc = "loop"
    /\ i >= Len(contacts) \/ LoopBreak(i, max_emails)
    /\ pc' = "return"
    /\ UNCHANGED << args, source_file, html_template, text_template, contacts >>
    /\ UNCHANGED loopVars

\* Mutant of SkipContact: `break` in place of `continue` on line 180.
SkipContact_Mut ==
    /\ pc = "loop"
    /\ i < Len(contacts) /\ ~LoopBreak(i, max_emails)
    /\ NoRecipient(contacts[i + 1])
    /\ failed_count' = failed_count + 1
    /\ processed' = Append(processed, i)
    /\ pc' = "return"
    /\ UNCHANGED << args, source_file, html_template, text_template,
                    contacts, max_emails, total_emails, i, sent_count,
                    smtp_session, socket, calls, returned_true, sleeps, connects, result,
                    raised, disconnected >>

\* Lines 160-180: a contact without recipient is counted as failed and the
\* loop continues with the next one.
SkipContact ==
    /\ pc = "loop"
    /\ i < Len(contacts) /\ ~LoopBreak(i, max_emails)
    /\ NoRecipient(contacts[i + 1])
    /\ failed_count' = failed_count + 1
    /\ processed' = Append(processed, i)
    /\ i' = i + 1
    /\ UNCHANGED << args, source_file, pc, html_template, text_template,
                    contacts, max_emails, total_emails, sent_count,
                    smtp_session, socket, calls, returned_true, sleeps, connects, result,
                    raised, disconnected >>

\* Lines 160-196: a contact with a recipient is sent to, the outcome is
\* tallied, and the loop either sleeps or moves on.
SendContact ==
    /\ pc = "loop"
    /\ i < Len(contacts) /\ ~LoopBreak(i, max_emails)
    /\ ~NoRecipient(contacts[i + 1])
    /\ \E o \in SendEmail(smtp_session, socket) :
          /\ smtp_session' = o.session
          /\ socket' = o.socket
          /\ connects' = connects \o o.connects
          /\ returned_true' = returned_true + (IF o.success THEN 1 ELSE 0)
          /\ sent_count' = TallyAfter(o.success, sent_count, failed_count)[1]
          /\ failed_count' = TallyAfter(o.success, sent_count, failed_count)[2]
    /\ calls' = Append(calls, i)
    /\ processed' = Append(processed, i)
    /\ IF ShouldSleep(i, total_emails, args.delay)
       THEN pc' = "sleep" /\ i' = i
       ELSE pc' = "loop" /\ i' = i + 1
    /\ UNCHANGED << args, source_file, html_template, text_template, contacts,
                    max_emails, total_emails, sleeps, result, raised,
                    disconnected >>

\* Line 197: time.sleep(delay), then the next iteration.
Sleep ==
    /\ pc = "sleep"
    /\ sleeps' = Append(sleeps, i)
    /\ i' = i + 1
    /\ pc' = "loop"
    /\ UNCHANGED << args, source_file, html_template, text_template, contacts,
                    max_emails, total_emails, sent_count, failed_count,
                    smtp_session, socket, processed, calls, returned_true, connects, result,
                    raised, disconnected >>

\* Lines 199-200.
Return ==
    /\ pc = "return"
    /\ result' = Some(<<sent_count, failed_count>>)
    /\ pc' = "finally"
    /\ UNCHANGED << args, source_file, html_template, text_template, contacts,
                    max_emails, total_emails, i, sent_count, failed_count,
                    smtp_session, socket, processed, calls, returned_true, sleeps, connects,
                    raised, disconnected >>

\* Lines 266-278: an exception that `except Exception` does not catch (a
\* KeyboardInterrupt during a send or a sleep) leaves send_bulk_emails
\* through the try statement of main.
Interrupt ==
    /\ pc \in {"loop", "sleep"}
    /\ raised' = TRUE
    /\ pc' = "finally"
    /\ UNCHANGED << args, source_file, html_template, text_template, contacts,
                    max_emails, total_emails, i, sent_count, failed_count,
                    smtp_session, socket, processed, calls, returned_true, sleeps, connects,
                    result, disconnected >>

\* Lines 278-280 and 45-49: the finally clause disconnects; quit() closes
\* the connection of the SMTP object held.
Disconnect ==
    /\ pc = "finally"
    /\ socket' = IF HoldsSession(smtp_session) THEN "closed" ELSE socket
    /\ disconnected' = TRUE
    /\ pc' = "done"
    /\ UNCHANGED << args, source_file, html_template, text_template, contacts,
                    max_emails, total_emails, i, sent_count, failed_count,
                    smtp_session, processed, calls, returned_true, sleeps, connects, result,
                    raised >>

Next ==
    \/ LoadHtmlTemplate
    \/ LoadTextTemplate
    \/ LoadContacts
    \/ BulkStart
    \/ LoopExit
    \/ SkipContact
    \/ SendContact
    \/ Sleep
    \/ Return
    \/ Interrupt
    \/ Disconnect

Spec == Init /\ [][Next]_vars

\* The program is sequential and always takes its next step.
LiveSpec == Spec /\ WF_vars(Next)

\* ====================================================================
\* Properties
\* ====================================================================
Range(seq) == { seq[k] : k \in 1..Len(seq) }

\* The contact at 0-based index idx of the loaded list.
ContactAt(idx) == contacts[idx + 1]

\* The contact's 'email' field is absent or empty.
LacksEmail(contact) == "email" \notin DOMAIN contact \/ contact["email"] = ""

Max(a, b) == IF a >= b THEN a ELSE b

\* send_bulk_emails has returned its tally.
Returned == result # None

\* The number of contacts a complete run is expected to process, as the
\* specification words it: min(N, cap), the cap being 3 and/or --max-emails.
CapOf(a) ==
    IF a.test
    THEN (IF a.max_emails = None THEN TestLimit ELSE Min(TestLimit, a.max_emails[1]))
    ELSE (IF a.max_emails = None THEN Len(contacts) ELSE a.max_emails[1])

ExpectedProcessed == Min(Len(contacts), CapOf(args))

\* --------------------------------------------------------------------
\* C1: every iterated contact adds exactly one to exactly one of
\* sent_count / failed_count, so sent_count + failed_count is always the
\* number of contacts iterated so far, and the returned tally sums to the
\* number of contacts iterated.
C1_TallyCountsIterated ==
    /\ [](/\ sent_count + failed_count = Len(processed)
          /\ Returned => result[1][1] + result[1][2] = Len(processed))
    /\ [][ processed' # processed =>
             /\ Len(processed') = Len(processed) + 1
             /\ \/ sent_count' = sent_count + 1 /\ failed_count' = failed_count
                \/ sent_count' = sent_count /\ failed_count' = failed_count + 1 ]_vars

\* A run returned after iterating three contacts or more, with both a
\* success and a failure tallied.
C1_Witness ==
    /\ pc = "done" /\ Returned
    /\ Len(processed) >= 3
    /\ result[1][1] >= 1 /\ result[1][2] >= 1

\* --------------------------------------------------------------------
\* C2 (as claimed): in test mode a complete run processes exactly
\* min(N, 3, max_emails) contacts, or min(N, 3) when max_emails is unset.
C2_Original ==
    (Returned /\ args.test) => Len(processed) = ExpectedProcessed

\* C2 (amended): in test mode a complete run processes exactly
\* max(0, min(N, 3, max_emails)) contacts, or min(N, 3) when max_emails is
\* unset: a negative max_emails processes no contact.
C2_TestModeCount ==
    (Returned /\ args.test) => Len(processed) = Max(0, ExpectedProcessed)

\* Ten contacts are out of the bound; here: more contacts than the test
\* limit, test mode, max_emails unset, exactly three processed.
C2_Witness ==
    /\ pc = "done" /\ Returned /\ args.test
    /\ args.max_emails = None
    /\ Len(contacts) > TestLimit
    /\ Len(processed) = TestLimit

\* --------------------------------------------------------------------
\* C3 (as claimed): outside test mode a complete run processes exactly N
\* contacts, or min(N, max_emails) when max_emails is set, and each
\* processed contact gives one send_email call or one counted failure.
C3_Original ==
    (Returned /\ ~args.test) =>
        /\ Len(processed) = ExpectedProcessed
        /\ \A idx \in Range(processed) :
              Cardinality({ k \in 1..Len(calls) : calls[k] = idx }) =
                 (IF LacksEmail(ContactAt(idx)) THEN 0 ELSE 1)
        /\ failed_count >=
              Cardinality({ idx \in Range(processed) : LacksEmail(ContactAt(idx)) })

\* C3 (amended): outside test mode a complete run processes exactly N
\* contacts, or max(0, min(N, max_emails)) when max_emails is set; each
\* processed contact gives exactly one send_email call, or, lacking an
\* email, no call and one counted failure.
C3_NormalModeCount ==
    (Returned /\ ~args.test) =>
        /\ Len(processed) = Max(0, ExpectedProcessed)
        /\ \A idx \in Range(processed) :
              Cardinality({ k \in 1..Len(calls) : calls[k] = idx }) =
                 (IF LacksEmail(ContactAt(idx)) THEN 0 ELSE 1)
        /\ failed_count >=
              Cardinality({ idx \in Range(processed) : LacksEmail(ContactAt(idx)) })

\* A complete run outside test mode, capped by max_emails below N, and one
\* uncapped run are both of interest; the witness is the capped one.
C3_Witness ==
    /\ pc = "done" /\ Returned /\ ~args.test
    /\ args.max_emails # None
    /\ args.max_emails[1] >= 2
    /\ args.max_emails[1] < Len(contacts)
    /\ Len(processed) = args.max_emails[1]
    /\ Len(calls) >= 1 /\ Len(calls) < Len(processed)

\* --------------------------------------------------------------------
\* C4: iterating a contact whose 'email' is absent or empty adds one to
\* failed_count and calls neither send_email nor connect.
C4_NoEmailNeverSent ==
    [][ (processed' # processed /\ LacksEmail(ContactAt(i))) =>
           /\ failed_count' = failed_count + 1
           /\ sent_count' = sent_count
           /\ calls' = calls
           /\ connects' = connects
           /\ smtp_session' = smtp_session
           /\ socket' = socket ]_vars

\* Both a contact without the key and one with an empty address were
\* iterated, and no send_email call was made at all.
C4_Witness ==
    /\ \E a, b \in Range(processed) :
          /\ "email" \notin DOMAIN ContactAt(a)
          /\ "email" \in DOMAIN ContactAt(b) /\ ContactAt(b)["email"] = ""
    /\ failed_count >= 2
    /\ calls = <<>> /\ connects = <<>>

\* --------------------------------------------------------------------
\* C5: neither a failed send nor a contact lacking an email ends the loop:
\* the loop is left (unless an exception escapes) only once every index
\* below total_emails has been processed, and a run in the loop always
\* goes on to process them all and return its tally.
C5_FailuresNeverEndLoop ==
    /\ [][ (pc = "loop" /\ pc' \notin {"loop", "sleep"} /\ ~raised') =>
              Range(processed) = 0..(total_emails - 1) ]_vars
    /\ (pc = "loop") ~>
          (raised \/ (Returned /\ Range(processed) = 0..(total_emails - 1)))

\* The first send failed at connect, a contact lacking an email was
\* iterated, a later send succeeded and the whole list was processed.
C5_Witness ==
    /\ pc = "done" /\ Returned
    /\ Len(connects) >= 2 /\ connects[1] = "refused"
    /\ \E idx \in Range(processed) : LacksEmail(ContactAt(idx))
    /\ result[1][1] >= 1
    /\ Len(processed) = Len(contacts)

\* --------------------------------------------------------------------
\* The processed contacts, other than the last one, that have an email.
SentBeforeLast ==
    { idx \in Range(processed) :
         idx # processed[Len(processed)] /\ ~LacksEmail(ContactAt(idx)) }

\* C6 (as claimed): with delay > 0 a complete run that processes k >= 1
\* contacts issues exactly k - 1 delays.
C6_Original ==
    (Returned /\ args.delay > 0 /\ Len(processed) >= 1) =>
        Len(sleeps) = Len(processed) - 1

\* C6 (amended): with delay > 0 the loop is suspended once after each
\* processed contact that has an email and is not the last one processed;
\* a contact lacking an email is not followed by a delay, so a complete run
\* that processes k >= 1 contacts, j of them before the last lacking an
\* email, issues exactly k - 1 - j delays.
C6_DelaysBetweenSends ==
    (Returned /\ args.delay > 0 /\ Len(processed) >= 1) =>
        /\ Range(sleeps) = SentBeforeLast
        /\ Len(sleeps) = Cardinality(SentBeforeLast)
        /\ Len(sleeps) = Len(processed) - 1 -
              Cardinality({ idx \in Range(processed) :
                  idx # processed[Len(processed)] /\ LacksEmail(ContactAt(idx)) })

\* More contacts than max_emails = 2, outside test mode, all with an email:
\* two processed, one delay, between them.
C6_Witness ==
    /\ pc = "done" /\ Returned /\ ~args.test /\ args.delay > 0
    /\ args.max_emails = Some(2)
    /\ Len(contacts) = MaxContacts
    /\ processed = <<0, 1>> /\ calls = <<0, 1>>
    /\ sleeps = <<0>>

\* --------------------------------------------------------------------
\* C7: a delay is only ever issued when a further contact is still to be
\* processed, and in a complete run none follows the last processed contact.
C7_NoDelayAfterLast ==
    /\ pc = "sleep" => (i + 1 < Len(contacts) /\ i + 1 < CapOf(args))
    /\ \A k \in 1..Len(sleeps) :
          sleeps[k] + 1 < Len(contacts) /\ sleeps[k] + 1 < CapOf(args)
    /\ (Returned /\ processed # <<>>) =>
          processed[Len(processed)] \notin Range(sleeps)

\* A capped run with delay > 0 whose last processed contact was sent to,
\* after delays between the earlier ones.
C7_Witness ==
    /\ pc = "done" /\ Returned /\ args.delay > 0
    /\ Len(processed) < Len(contacts)
    /\ Len(processed) >= 2
    /\ calls # <<>> /\ calls[Len(calls)] = processed[Len(processed)]
    /\ Len(sleeps) = Len(processed) - 1

\* --------------------------------------------------------------------
\* C8 (as claimed): a send_email call made while no session has been
\* established calls connect(), whichever way the earlier connect() failed.
C8_ReconnectAfterFailedConnect ==
    [][ (calls' # calls /\ smtp_session # "open") =>
           Len(connects') = Len(connects) + 1 ]_vars

\* --------------------------------------------------------------------
\* C9: a run of main that reached the send loop ends only after
\* disconnect() has run, whether send_bulk_emails returned or raised, and
\* no connection opened during the run is left open; disconnect() runs
\* after the loop only.
C9_DisconnectAlways ==
    /\ (pc = "done" /\ contacts # <<>>) =>
          /\ disconnected
          /\ Returned \/ raised
          /\ socket # "open"
          /\ connects # <<>> /\ connects[Len(connects)] # "refused" => socket = "closed"
    /\ disconnected => pc = "done"

\* The loop failed partway with a connection open, and the connection was
\* closed by the end of the run.
C9_Witness ==
    /\ pc = "done" /\ raised /\ ~Returned
    /\ disconnected
    /\ smtp_session = "half"
    /\ socket = "closed"
    /\ Len(processed) >= 2

\* --------------------------------------------------------------------
\* C10: contacts are processed in list order, each at most once: the
\* k-th contact processed is the k-th of the list, send_email is called in
\* strictly increasing index order for processed contacts only, and no
\* index at or above the cap (or the list length) is processed.
C10_OriginalOrder ==
    /\ \A k \in 1..Len(processed) : processed[k] = k - 1
    /\ \A k \in 1..(Len(calls) - 1) : calls[k] < calls[k + 1]
    /\ Range(calls) \subseteq Range(processed)
    /\ \A idx \in Range(processed) : idx < Len(contacts) /\ idx < CapOf(args)

\* A capped complete run with several send_email calls and a skipped
\* contact between them.
C10_Witness ==
    /\ pc = "done" /\ Returned
    /\ Len(processed) < Len(contacts)
    /\ Len(calls) >= 2
    /\ Len(calls) < Len(processed)
    /\ LacksEmail(ContactAt(1))

\* --------------------------------------------------------------------
\* C11 (as claimed): in every state of a run the number of contacts
\* processed so far is at most min(N, max_emails when configured, 3 in test
\* mode), for every max_emails the command line accepts.
C11_Original ==
    contacts # <<>> => Len(processed) <= ExpectedProcessed

\* C11 (amended): in every state of a run the number of contacts processed
\* so far is at most max(0, min(N, max_emails when configured, 3 in test
\* mode)): with a negative max_emails none is processed.
C11_ProcessedWithinCap ==
    contacts # <<>> => Len(processed) <= Max(0, ExpectedProcessed)

\* A test-mode run with max_emails above the test limit and more contacts
\* than the limit has processed as many contacts as the bound allows.
C11_Witness ==
    /\ args.test /\ args.max_emails # None /\ args.max_emails[1] > TestLimit
    /\ Len(contacts) > TestLimit
    /\ Len(processed) = TestLimit
    /\ pc = "done"

\* --------------------------------------------------------------------
\* The HTML template could not be loaded.
HtmlLoadFailed == pc # "load_html" /\ html_template = None

\* The text template was asked for and could not be loaded.
TextLoadFailed ==
    /\ pc \notin {"load_html", "load_text"}
    /\ ~Falsy(html_template)
    /\ args.text_template /\ text_template = None

\* C12 (as claimed): when loading the HTML template or the text template
\* given with --text-template fails, main stops early: no send_email call
\* is made and no connection is opened.
C12_TemplateFailureAborts ==
    (HtmlLoadFailed \/ TextLoadFailed) =>
        /\ calls = <<>>
        /\ connects = <<>> /\ socket = "none"

\* --------------------------------------------------------------------
\* The templates were loaded and the contact list came back empty.
NoContactsLoaded ==
    /\ pc \notin {"load_html", "load_text", "load_contacts"}
    /\ ~Falsy(html_template)
    /\ contacts = <<>>

\* C13: when the loader returns an empty list (as it does on a file or
\* query error), main stops before send_bulk_emails: nothing is processed,
\* no send_email call is made and no connection is opened.
C13_NoContactsAborts ==
    NoContactsLoaded =>
        /\ pc = "done"
        /\ processed = <<>> /\ calls = <<>>
        /\ connects = <<>> /\ socket = "none" /\ smtp_session = "None"
        /\ result = None /\ ~raised /\ ~disconnected

\* The source holds contacts, the load failed, and main has stopped.
C13_Witness ==
    /\ NoContactsLoaded
    /\ source_file # <<>>
    /\ pc = "done"

\* --------------------------------------------------------------------
\* The processed contacts that lack an email.
SkippedContacts == { idx \in Range(processed) : LacksEmail(ContactAt(idx)) }

\* C14: at return sent_count is the number of send_email calls that
\* returned True, and failed_count is the number that returned False plus
\* the number of processed contacts lacking an email.
C14_TallyMatchesOutcomes ==
    Returned =>
        /\ result[1][1] = returned_true
        /\ result[1][2] = (Len(calls) - returned_true) + Cardinality(SkippedContacts)
        /\ Len(calls) + Cardinality(SkippedContacts) = Len(processed)

\* A returned run with a successful send, a failed send and a skipped
\* contact.
C14_Witness ==
    /\ pc = "done" /\ Returned
    /\ returned_true >= 1
    /\ Len(calls) - returned_true >= 1
    /\ SkippedContacts # {}

\* --------------------------------------------------------------------
\* The connect() call of this step, if any, failed: send_message is not
\* reached.
ConnectFailedInStep ==
    connects' # connects /\ connects'[Len(connects')] # "ok"

\* C15 (as claimed): at most one session is ever established, every
\* message handed to the relay goes over that authenticated session, and
\* once a session exists connect() is never called again.
C15_SingleAuthenticatedSession ==
    /\ [](Cardinality({ k \in 1..Len(connects) : connects[k] = "ok" }) <= 1)
    /\ [][ (calls' # calls /\ ~ConnectFailedInStep) => smtp_session' = "open" ]_vars
    /\ [][ smtp_session = "open" =>
              (connects' = connects /\ smtp_session' = "open") ]_vars

\* --------------------------------------------------------------------
\* C16: connect() is called only inside a send_email call made while no
\* session is held, so only for a processed contact that has an email;
\* while no such contact has been processed no connection exists, and a
\* run without one ends with a disconnect() that closes nothing.
C16_LazyConnect ==
    /\ [][ connects' # connects =>
              /\ calls' = Append(calls, i)
              /\ ~LacksEmail(ContactAt(i))
              /\ smtp_session = "None"
              /\ Len(connects') = Len(connects) + 1 ]_vars
    /\ [](calls = <<>> =>
              (connects = <<>> /\ smtp_session = "None" /\ socket = "none"))

\* The first contacts lacked an email and were processed without any
\* connection attempt; the first contact with an email triggered connect().
C16_Witness ==
    /\ Len(processed) >= 3
    /\ LacksEmail(ContactAt(0)) /\ LacksEmail(ContactAt(1))
    /\ calls = <<2>>
    /\ Len(connects) = 1

\* --------------------------------------------------------------------
\* The processed contacts that have an email and an index below
\* total_emails - 1.
SentBelowLast ==
    { idx \in Range(processed) :
         ~LacksEmail(ContactAt(idx)) /\ idx < total_emails - 1 }

\* C17: a delay is issued only right after the send_email call for a
\* contact at index i < total_emails - 1, never after a contact skipped for
\* lack of an email; with delay > 0 a returned run has issued one delay per
\* processed contact that has an email and an index below total_emails - 1.
C17_DelayOnlyAfterSend ==
    /\ [][ sleeps' # sleeps =>
              /\ sleeps' = Append(sleeps, i)
              /\ calls # <<>> /\ calls[Len(calls)] = i
              /\ processed[Len(processed)] = i
              /\ i < total_emails - 1
              /\ args.delay > 0 ]_vars
    /\ [](\A idx \in Range(sleeps) : ~LacksEmail(ContactAt(idx)))
    /\ []((Returned /\ args.delay > 0) =>
              (Range(sleeps) = SentBelowLast /\ Len(sleeps) = Cardinality(SentBelowLast)))

\* A returned run with delay > 0 in which a skipped contact lies between
\* two contacts sent to: fewer delays than processed contacts minus one.
C17_Witness ==
    /\ pc = "done" /\ Returned /\ args.delay > 0
    /\ Len(processed) = MaxContacts
    /\ LacksEmail(ContactAt(1))
    /\ sleeps = <<0, 2>>

====
